---- MODULE Spec2Model ----
(***************************************************************************)
(* Model of opusfilter/classifier.py: TrainClassifier.add_labels,          *)
(* TrainClassifier.set_cutoffs and the greedy search                       *)
(* TrainClassifier.find_best_model.                                        *)
(*                                                                         *)
(* Numbers.  Discard fractions are kept in thousandths (0.1 is 100), so    *)
(* that round(x, 2) is a real conversion (to a multiple of 10) and not the *)
(* identity.  Scores are integers; a cutoff is a quantile of a column and  *)
(* may fall between two scores, so cutoffs are kept in thousandths of a    *)
(* score unit and a score s is compared as s * Scale.                      *)
(*                                                                         *)
(* A data frame is a function from column name to the sequence of the      *)
(* column's values in row order; its columns are its DOMAIN.               *)
(***************************************************************************)
EXTENDS Integers, Sequences, FiniteSets, TLC

VARIABLES
    pc,                \* position in find_best_model / in the add_labels driver
    criterion,         \* argument of find_best_model
    discard_estimate,  \* self.discard_estimate
    df_training_data,  \* self.df_training_data (live training table)
    dev_data,          \* self.dev_data (live dev table)
    labels_train,      \* self.labels_train
    cutoffs,           \* local dict cutoffs (live cutoff-set)
    discards,          \* the one dict object bound to the local name discards
    best_model,        \* <<>> for None, else <<LR, crit_value, reference to discards>>
    i,                 \* position of the outer loop in discards.keys(), from 1
    discard,           \* local float discard
    best_discard,      \* local best_discard
    remove_column,     \* local flag
    j,                 \* inner loop counter
    df_train_copy,     \* snapshot training table of the current trial
    df_dev_copy,       \* snapshot dev table of the current trial
    cutoffs_copy,      \* snapshot cutoff-set of the current trial
    zero,              \* local flag: this is the drop-entirely trial
    labels,            \* local labels: [bound |-> FALSE] until first assigned
    LR,                \* classifier fitted by the current trial
    crit_value,        \* criterion value of the current trial
    won_with           \* history: the values discards held when best_model was last replaced

vars == <<pc, criterion, discard_estimate, df_training_data, dev_data,
          labels_train, cutoffs, discards, best_model, i, discard,
          best_discard, remove_column, j, df_train_copy, df_dev_copy,
          cutoffs_copy, zero, labels, LR, crit_value, won_with>>

----------------------------------------------------------------------------
(* Bounds of the model *)

\* criterion values returned by the external scorers are drawn from 1..MaxCrit
MaxCrit == 3
\* add_labels is exercised on tables of 0..MaxRows rows
MaxRows == 2
\* ... whose scores are drawn from 0..MaxScore
MaxScore == 1

(* Program constants *)

\* 0.1, the default discard estimate, in thousandths
DefaultDiscard == 100
\* range(11): trials per feature
NumTrials == 11
\* a decrement of 0.02
DiscardStepDouble == 2 * 10

\* 0.01, the per-trial decrement, in thousandths
DiscardStep == 10
\* one score unit in cutoff units; also 1.0 as a discard fraction
Scale == 1000

\* Column names of the training table, in column order.
Features == <<"LengthRatioFilter", "CrossEntropyFilter", "WordAlignFilter">>

\* Values of the discard_estimate constructor argument that are explored
\* (None selects the default).
DiscardEstimates == {0, 50, DefaultDiscard, 103, 200}

Criteria == {"roc_auc", "AIC", "BIC"}

None == "None"

----------------------------------------------------------------------------
(* Data frames *)

Columns(df) == DOMAIN df

\* DataFrame.pop(key), the frame that is left
Pop(df, key) == [c \in (DOMAIN df) \ {key} |-> df[c]]

\* len(training_data.index)
NumRows(df) == IF DOMAIN df = {} THEN 0 ELSE Len(df[CHOOSE c \in DOMAIN df : TRUE])

\* keys of a dict / columns of a frame in insertion order
KeysInOrder(d) == SelectSeq(Features, LAMBDA k : k \in DOMAIN d)

\* 'CrossEntropyFilter' in key or 'WordAlign' in key, for the column names
\* of Features: the names that have one of the two markers as a substring.
IsRejectHigh(key) == key \in {"CrossEntropyFilter", "WordAlignFilter"}

\* The training and dev score tables loaded by __init__ (label column popped
\* from the dev table).
TrainingTable ==
    [c \in {Features[n] : n \in 1..Len(Features)} |->
        CASE c = "LengthRatioFilter"  -> <<2, 0, 1, 3>>
          [] c = "CrossEntropyFilter" -> <<1, 3, 0, 2>>
          [] OTHER                    -> <<0, 1, 3, 2>>]

DevTable ==
    [c \in {Features[n] : n \in 1..Len(Features)} |-> <<1, 2>>]

----------------------------------------------------------------------------
(* Pure helpers *)

\* round(x, 2) of a fraction held in thousandths: the nearest multiple of
\* 10, a tie going to the even hundredth.  -0.0 and 0.0 are both 0 (Python's
\* -0.0 == 0 is True).
Round2(x) ==
    LET r == x % 10
        lower == x - r
    IN  IF r < 5 THEN lower
        ELSE IF r > 5 THEN lower + 10
        ELSE IF (lower \div 10) % 2 = 0 THEN lower ELSE lower + 10

\* pandas validates the argument of Series.quantile: q outside [0, 1] raises
\* ValueError.
QuantileDefined(q) == 0 <= q /\ q <= Scale

\* Series.quantile(q) with linear interpolation, q in thousandths, result in
\* cutoff units (Scale per score unit).
Quantile(col, q) ==
    LET s    == SortSeq(col, LAMBDA a, b : a < b)
        pos  == q * (Len(col) - 1)
        lo   == pos \div Scale
        frac == pos % Scale
    IN  IF frac = 0 THEN s[lo + 1] * Scale
        ELSE s[lo + 1] * Scale + frac * (s[lo + 2] - s[lo + 1])

\* the quantile argument set_cutoffs uses for a key
QuantileArg(key, discards_) ==
    IF IsRejectHigh(key) THEN Scale - discards_[key] ELSE discards_[key]

\* set_cutoffs raises when one of its quantile calls does
SetCutoffsRaises(discards_, cutoffs_) ==
    \E key \in DOMAIN cutoffs_ : ~QuantileDefined(QuantileArg(key, discards_))

\* set_cutoffs(training_data, discards, cutoffs) when it does not raise
SetCutoffs(training_data, discards_, cutoffs_) ==
    [key \in DOMAIN cutoffs_ |->
        Quantile(training_data[key], QuantileArg(key, discards_))]

\* a gate that passes sets the label back to 1
GateLabelLastWins(training_data, cutoffs_, key, row, label) ==
    IF IsRejectHigh(key)
    THEN IF training_data[key][row] * Scale > cutoffs_[key] THEN 0 ELSE 1
    ELSE IF training_data[key][row] * Scale < cutoffs_[key] THEN 0 ELSE 1

\* the body of "for key in cutoffs.keys()" of add_labels for one key
GateLabel(training_data, cutoffs_, key, row, label) ==
    IF IsRejectHigh(key)
    THEN IF training_data[key][row] * Scale > cutoffs_[key] THEN 0 ELSE label
    ELSE IF training_data[key][row] * Scale < cutoffs_[key] THEN 0 ELSE label

\* the inner loop of add_labels over the keys still to visit
RECURSIVE RowLabel(_, _, _, _, _)
RowLabel(training_data, cutoffs_, keys, row, label) ==
    IF keys = <<>> THEN label
    ELSE RowLabel(training_data, cutoffs_, Tail(keys), row,
                  GateLabel(training_data, cutoffs_, Head(keys), row, label))

\* add_labels(training_data, cutoffs): the list it returns and stores in
\* self.labels_train
AddLabels(training_data, cutoffs_) ==
    [row \in 1..NumRows(training_data) |->
        RowLabel(training_data, cutoffs_, KeysInOrder(cutoffs_), row, 1)]

\* a tie also counts as better
BetterOrEqual(crit, value, best) ==
    IF crit = "roc_auc" THEN value >= best ELSE value <= best

\* "crit_value > best_model[1]" for roc_auc, "crit_value < best_model[1]"
\* for AIC and BIC
Better(crit, value, best) ==
    IF crit = "roc_auc" THEN value > best ELSE value < best

\* the test that guards the replacement of best_model
Wins(crit, value, best_model_) ==
    best_model_ = <<>> \/ Better(crit, value, best_model_[2])

\* the third component stored in best_model: the dict object itself, no copy
DiscardsRef == "discards"

\* the dict a reference held in best_model denotes
Deref(ref) == discards

\* a win of any trial marks the column for removal
RemoveAfterAnyWin(zero_, remove_column_) == TRUE

\* remove_column after a winning trial: "if zero: remove_column = True"
RemoveAfterWin(zero_, remove_column_) == IF zero_ THEN TRUE ELSE remove_column_

\* a snapshot that still has every loaded column
SnapshotOfLoaded(d) ==
    [c \in DOMAIN TrainingTable |-> IF c \in DOMAIN d THEN d[c] ELSE TrainingTable[c]]

\* .copy() of a live table or of the live cutoff-set
Snapshot(d) == d

\* the column is never popped from the live table
KeepColumn(df, key, remove_column_) == df

\* "if remove_column: <table>.pop(key)" for the live training and dev tables
RemoveColumn(df, key, remove_column_) ==
    IF remove_column_ THEN Pop(df, key) ELSE df

\* the cutoff is never popped from the live cutoff-set
KeepCutoff(cutoffs_, key, remove_column_) == cutoffs_

\* "if remove_column: cutoffs.pop(key)"
RemoveCutoff(cutoffs_, key, remove_column_) ==
    IF remove_column_ THEN Pop(cutoffs_, key) ELSE cutoffs_

\* the write-back is skipped
WriteBackSkipped(discards_, key, best_discard_) == discards_

\* "discards[key] = best_discard" after the sweep
WriteBack(discards_, key, best_discard_) ==
    [discards_ EXCEPT ![key] = best_discard_]

----------------------------------------------------------------------------
(* find_best_model *)

NoFrame == [c \in {} |-> <<>>]
NoLR == [features |-> {}, labels |-> <<>>, id |-> <<0, 0>>]
Unbound == [bound |-> FALSE, value |-> <<>>]
Bound(v) == [bound |-> TRUE, value |-> v]

FeatureSet == {Features[n] : n \in 1..Len(Features)}

\* state after __init__ and lines 147-152
Init ==
    /\ pc = "sweep"
    /\ criterion \in Criteria
    /\ discard_estimate \in DiscardEstimates
    /\ df_training_data = TrainingTable
    /\ dev_data = DevTable
    /\ labels_train = <<>>
    /\ cutoffs = [key \in FeatureSet |-> None]
    /\ discards = [key \in FeatureSet |-> discard_estimate]
    /\ best_model = <<>>
    /\ i = 1
    /\ discard = 0
    /\ best_discard = 0
    /\ remove_column = FALSE
    /\ j = 0
    /\ df_train_copy = NoFrame
    /\ df_dev_copy = NoFrame
    /\ cutoffs_copy = NoFrame
    /\ zero = FALSE
    /\ labels = Unbound
    /\ LR = NoLR
    /\ crit_value = 0
    /\ won_with = NoFrame

\* lines 153-156: the outer loop takes its next key
StartSweep ==
    /\ pc = "sweep"
    /\ i <= Len(Features)
    /\ discard' = discards[Features[i]]
    /\ best_discard' = discards[Features[i]]
    /\ remove_column' = FALSE
    /\ j' = 0
    /\ pc' = "trial"
    /\ UNCHANGED <<criterion, discard_estimate, df_training_data, dev_data,
                   labels_train, cutoffs, discards, best_model, i,
                   df_train_copy, df_dev_copy, cutoffs_copy, zero, labels,
                   LR, crit_value, won_with>>

\* lines 158-173: snapshots, then the drop-entirely branch or cutoffs and labels
Trial ==
    /\ pc = "trial"
    /\ LET key == Features[i] IN
       /\ zero' = (discards[key] = 0)
       /\ IF discards[key] = 0
          THEN /\ df_train_copy' = Pop(Snapshot(df_training_data), key)
               /\ df_dev_copy' = Pop(Snapshot(dev_data), key)
               /\ cutoffs_copy' = Pop(Snapshot(cutoffs), key)
               /\ UNCHANGED <<labels, labels_train>>
               /\ pc' = "fit"
          ELSE /\ df_train_copy' = Snapshot(df_training_data)
               /\ df_dev_copy' = Snapshot(dev_data)
               /\ IF SetCutoffsRaises(discards, Snapshot(cutoffs))
                  THEN /\ cutoffs_copy' = Snapshot(cutoffs)
                       /\ UNCHANGED <<labels, labels_train>>
                       /\ pc' = "error"
                  ELSE /\ cutoffs_copy' = SetCutoffs(df_train_copy', discards,
                                                     Snapshot(cutoffs))
                       /\ labels' = Bound(AddLabels(df_train_copy', cutoffs_copy'))
                       /\ labels_train' = AddLabels(df_train_copy', cutoffs_copy')
                       /\ pc' = "fit"
    /\ UNCHANGED <<criterion, discard_estimate, df_training_data, dev_data,
                   cutoffs, discards, best_model, i, discard, best_discard,
                   remove_column, j, LR, crit_value, won_with>>

\* lines 175-185: fit on the snapshot and the local labels, then score; the
\* fit and the scorers are external, the criterion value is any value
TrainAndScore ==
    /\ pc = "fit"
    /\ IF ~labels.bound
       THEN /\ pc' = "error"
            /\ UNCHANGED <<LR, crit_value>>
       ELSE /\ LR' = [features |-> Columns(df_train_copy),
                      labels |-> labels.value, id |-> <<i, j>>]
            /\ crit_value' \in 1..MaxCrit
            /\ pc' = "compare"
    /\ UNCHANGED <<criterion, discard_estimate, df_training_data, dev_data,
                   labels_train, cutoffs, discards, best_model, i, discard,
                   best_discard, remove_column, j, df_train_copy, df_dev_copy,
                   cutoffs_copy, zero, labels, won_with>>

\* lines 187-198
Compare ==
    /\ pc = "compare"
    /\ IF Wins(criterion, crit_value, best_model)
       THEN /\ best_model' = <<LR, crit_value, DiscardsRef>>
            /\ best_discard' = Round2(discard)
            /\ remove_column' = RemoveAfterWin(zero, remove_column)
            /\ won_with' = discards
       ELSE UNCHANGED <<best_model, best_discard, remove_column, won_with>>
    /\ pc' = "decrement"
    /\ UNCHANGED <<criterion, discard_estimate, df_training_data, dev_data,
                   labels_train, cutoffs, discards, i, discard, j,
                   df_train_copy, df_dev_copy, cutoffs_copy, zero, labels, LR,
                   crit_value>>

\* lines 200-201 and the step of "for j in range(11)"
Decrement ==
    /\ pc = "decrement"
    /\ discard' = discard - DiscardStep
    /\ discards' = [discards EXCEPT ![Features[i]] = Round2(discard - DiscardStep)]
    /\ j' = j + 1
    /\ pc' = IF j + 1 < NumTrials THEN "trial" ELSE "endsweep"
    /\ UNCHANGED <<criterion, discard_estimate, df_training_data, dev_data,
                   labels_train, cutoffs, best_model, i, best_discard,
                   remove_column, df_train_copy, df_dev_copy, cutoffs_copy,
                   zero, labels, LR, crit_value, won_with>>

\* lines 203-209
EndSweep ==
    /\ pc = "endsweep"
    /\ LET key == Features[i] IN
       /\ df_training_data' = RemoveColumn(df_training_data, key, remove_column)
       /\ dev_data' = RemoveColumn(dev_data, key, remove_column)
       /\ cutoffs' = RemoveCutoff(cutoffs, key, remove_column)
       /\ discards' = WriteBack(discards, key, best_discard)
    /\ i' = i + 1
    /\ pc' = "sweep"
    /\ UNCHANGED <<criterion, discard_estimate, labels_train, best_model,
                   discard, best_discard, remove_column, j, df_train_copy,
                   df_dev_copy, cutoffs_copy, zero, labels, LR, crit_value,
                   won_with>>

\* line 211
Return ==
    /\ pc = "sweep"
    /\ i > Len(Features)
    /\ pc' = "done"
    /\ UNCHANGED <<criterion, discard_estimate, df_training_data, dev_data,
                   labels_train, cutoffs, discards, best_model, i, discard,
                   best_discard, remove_column, j, df_train_copy, df_dev_copy,
                   cutoffs_copy, zero, labels, LR, crit_value, won_with>>

Next ==
    \/ StartSweep
    \/ Trial
    \/ TrainAndScore
    \/ Compare
    \/ Decrement
    \/ EndSweep
    \/ Return

Spec == Init /\ [][Next]_vars

----------------------------------------------------------------------------
(* add_labels on its own: a caller labels a table twice with the same cutoffs *)

\* tables of 0..MaxRows rows over the columns of Features
LabelTables ==
    UNION {[FeatureSet -> [1..n -> 0..MaxScore]] : n \in 0..MaxRows}

\* cutoffs on the scores 0 and 1 and halfway between them
CutoffValues == {0, Scale \div 2, Scale}

\* cutoff-sets over any subset of the columns
LabelCutoffs == UNION {[K -> CutoffValues] : K \in SUBSET FeatureSet}

InitLabels ==
    /\ pc = "add_labels"
    /\ criterion = "roc_auc"
    /\ discard_estimate = DefaultDiscard
    /\ df_training_data \in LabelTables
    /\ dev_data = DevTable
    /\ labels_train = <<>>
    /\ cutoffs \in LabelCutoffs
    /\ discards = [key \in FeatureSet |-> discard_estimate]
    /\ best_model = <<>>
    /\ i = 1
    /\ discard = 0
    /\ best_discard = 0
    /\ remove_column = FALSE
    /\ j = 0
    /\ df_train_copy = NoFrame
    /\ df_dev_copy = NoFrame
    /\ cutoffs_copy = NoFrame
    /\ zero = FALSE
    /\ labels = Unbound
    /\ LR = NoLR
    /\ crit_value = 0
    /\ won_with = NoFrame

\* labels = self.add_labels(df_training_data, cutoffs)
AddLabelsCall ==
    /\ pc = "add_labels"
    /\ labels' = Bound(AddLabels(df_training_data, cutoffs))
    /\ labels_train' = AddLabels(df_training_data, cutoffs)
    /\ pc' = "labelled"
    /\ UNCHANGED <<criterion, discard_estimate, df_training_data, dev_data,
                   cutoffs, discards, best_model, i, discard, best_discard,
                   remove_column, j, df_train_copy, df_dev_copy, cutoffs_copy,
                   zero, LR, crit_value, won_with>>

\* self.add_labels(df_training_data, cutoffs) again, result left in
\* self.labels_train
AddLabelsAgain ==
    /\ pc = "labelled"
    /\ labels_train' = AddLabels(df_training_data, cutoffs)
    /\ pc' = "relabelled"
    /\ UNCHANGED <<criterion, discard_estimate, df_training_data, dev_data,
                   cutoffs, discards, best_model, i, discard, best_discard,
                   remove_column, j, df_train_copy, df_dev_copy, cutoffs_copy,
                   zero, labels, LR, crit_value, won_with>>

NextLabels ==
    \/ AddLabelsCall
    \/ AddLabelsAgain

SpecLabels == InitLabels /\ [][NextLabels]_vars

----------------------------------------------------------------------------
(* Properties *)

\* the discard-set the best-model record holds
RecordDiscards == Deref(best_model[3])

InRange(d) == 0 <= d /\ d <= Scale

\* C1: across consecutive trials the criterion value in the best-model
\* record is replaced only by a strictly greater value under roc_auc and
\* only by a strictly lower value under AIC or BIC; a trial that ties the
\* current best leaves the record as it is.
C1_BestIsMonotonic ==
    [][best_model # <<>> =>
         /\ best_model' # <<>>
         /\ best_model' # best_model =>
               IF criterion = "roc_auc"
               THEN best_model'[2] > best_model[2]
               ELSE best_model'[2] < best_model[2]
         /\ (pc = "compare" /\ crit_value = best_model[2]) =>
               best_model' = best_model]_vars

\* a later trial has replaced the first record, and the current trial tied
\* the record and was not taken
C1_Witness ==
    /\ pc = "decrement"
    /\ best_model # <<>>
    /\ best_model[1].id # <<1, 0>>
    /\ crit_value = best_model[2]
    /\ LR.id # best_model[1].id

\* C2: a feature that is gone from the live training table is gone from the
\* live dev table, the live cutoff-set and every snapshot held, it stays
\* gone, and the live column sets only shrink.
C2_RemovalIsIrreversible ==
    /\ [](\A f \in FeatureSet :
            f \notin Columns(df_training_data) =>
                /\ f \notin Columns(dev_data)
                /\ f \notin DOMAIN cutoffs
                /\ f \notin Columns(df_train_copy)
                /\ f \notin Columns(df_dev_copy)
                /\ f \notin DOMAIN cutoffs_copy)
    /\ [][/\ Columns(df_training_data') \subseteq Columns(df_training_data)
          /\ Columns(dev_data') \subseteq Columns(dev_data)
          /\ DOMAIN cutoffs' \subseteq DOMAIN cutoffs]_vars

\* the first feature was removed and a trial of the third feature's sweep
\* has taken its snapshots
C2_Witness ==
    /\ pc = "fit"
    /\ i = 3
    /\ Features[1] \notin Columns(df_training_data)
    /\ Features[2] \in Columns(df_train_copy)

\* C3: the discard-set held in the best-model record equals, in every later
\* state until another trial wins, the discard values that were in force
\* when the winning trial was evaluated.
C3_RecordHoldsCopy ==
    best_model # <<>> => RecordDiscards = won_with

\* C4: the key sets of the live cutoff-set and of the live discard-set both
\* equal the column set of the live training table in every state.
C4_KeySetsEqualColumns ==
    /\ DOMAIN cutoffs = Columns(df_training_data)
    /\ DOMAIN discards = Columns(df_training_data)

\* C4 as amended: the key set of the live cutoff-set equals the column set
\* of the live training table (and of the live dev table) in every state;
\* the discard-set keeps a key for every feature the run started with, the
\* removed ones included.
C4_Amended ==
    /\ DOMAIN cutoffs = Columns(df_training_data)
    /\ Columns(dev_data) = Columns(df_training_data)
    /\ DOMAIN discards = FeatureSet
    /\ Columns(df_training_data) \subseteq DOMAIN discards

\* a feature has been removed and still has its discard entry
C4_Witness ==
    /\ pc = "sweep"
    /\ i = 3
    /\ Features[2] \notin Columns(df_training_data)
    /\ Features[2] \in DOMAIN discards

\* C5: with the default discard estimate every entry of the discard-set is
\* within [0, 1] in every state, also after each of the 11 decrements.
C5_DiscardsInRange ==
    discard_estimate = DefaultDiscard =>
        \A key \in DOMAIN discards : InRange(discards[key])

\* C5 as amended: with the default discard estimate every entry of the
\* discard-set is within [0, 1] whenever a trial runs and after the
\* write-back; only between the 11th decrement of a sweep and the
\* write-back the swept feature's entry is -0.01.
C5_Amended ==
    discard_estimate = DefaultDiscard =>
        IF pc = "endsweep"
        THEN /\ discards[Features[i]] = 0 - DiscardStep
             /\ \A key \in DOMAIN discards \ {Features[i]} : InRange(discards[key])
        ELSE \A key \in DOMAIN discards : InRange(discards[key])

\* the 11th decrement of the second sweep has been made
C5_Witness ==
    /\ discard_estimate = DefaultDiscard
    /\ pc = "endsweep"
    /\ i = 2
    /\ j = NumTrials

\* the gate of a key fails for a row
GateFails(key, row) ==
    IF key \in {"CrossEntropyFilter", "WordAlignFilter"}
    THEN df_training_data[key][row] * Scale > cutoffs[key]
    ELSE df_training_data[key][row] * Scale < cutoffs[key]

\* C6: add_labels returns one label per row in row order, 0 exactly for the
\* rows where some key of the cutoff-set fails its gate and 1 for the
\* others (a score equal to the cutoff passes); a second call with the same
\* table and cutoffs gives the same labels.
C6_LabelsAreGateConjunction ==
    pc \in {"labelled", "relabelled"} =>
        /\ DOMAIN labels.value = 1..NumRows(df_training_data)
        /\ \A row \in 1..NumRows(df_training_data) :
              labels.value[row] =
                  IF \E key \in DOMAIN cutoffs : GateFails(key, row) THEN 0 ELSE 1
        /\ labels_train = labels.value

\* labelled twice; one row rejected by its last key only, one row accepted
\* with a score equal to a cutoff, one key of each orientation in force
C6_Witness ==
    /\ pc = "relabelled"
    /\ DOMAIN cutoffs = FeatureSet
    /\ NumRows(df_training_data) = 2
    /\ labels.value = <<0, 1>>
    /\ GateFails("WordAlignFilter", 1)
    /\ ~GateFails("LengthRatioFilter", 1)
    /\ ~GateFails("CrossEntropyFilter", 1)
    /\ df_training_data["LengthRatioFilter"][2] * Scale = cutoffs["LengthRatioFilter"]
    /\ df_training_data["CrossEntropyFilter"][2] * Scale = cutoffs["CrossEntropyFilter"]

\* the feature whose sweep has just ended
Swept == Features[i - 1]

\* C7: for any default discard estimate, at the end of a feature's sweep
\* the feature is removed from the live training table, dev table and
\* cutoff-set exactly when the last winning trial of the sweep was its
\* drop-entirely trial, and exactly when the discard written back for it
\* is 0.
C7_RemovedIffDropTrialBest ==
    (pc = "sweep" /\ i > 1) =>
        /\ Swept \notin Columns(df_training_data) <=>
              /\ best_model # <<>>
              /\ best_model[1].id[1] = i - 1
              /\ Swept \notin best_model[1].features
        /\ Swept \notin Columns(df_training_data) <=> discards[Swept] = 0
        /\ Swept \notin Columns(df_training_data) <=> Swept \notin Columns(dev_data)
        /\ Swept \notin Columns(df_training_data) <=> Swept \notin DOMAIN cutoffs
        /\ \A k \in 1..(i - 1) :
              Features[k] \notin Columns(df_training_data) <=> discards[Features[k]] = 0

\* with a default other than 0.1 the second feature was removed after its
\* sweep and the first was kept
C7_Witness ==
    /\ pc = "sweep"
    /\ i = 3
    /\ discard_estimate # DefaultDiscard
    /\ Features[2] \notin Columns(df_training_data)
    /\ Features[1] \in Columns(df_training_data)
    /\ discards[Features[2]] = 0
    /\ discards[Features[1]] # 0

\* C8: for any default discard estimate in [0, 1], when a drop-entirely
\* trial fits the classifier the label vector of an earlier non-drop trial
\* exists and is the one the fit uses.
C8_DropTrialHasLabels ==
    (pc = "fit" /\ zero /\ InRange(discard_estimate)) =>
        /\ labels.bound
        /\ labels.value = labels_train

\* C9: with the default discard estimate, the discard-set in the returned
\* record equals the discard values in force during the trial that produced
\* the returned model; features swept after the winning sweep hold the
\* default.
C9_ReturnedDiscards ==
    (pc = "done" /\ discard_estimate = DefaultDiscard /\ best_model # <<>>) =>
        /\ RecordDiscards = won_with
        /\ \A k \in 1..Len(Features) :
              k > best_model[1].id[1] => RecordDiscards[Features[k]] = DefaultDiscard

\* returned a model of a middle trial of the second sweep, after the first
\* feature's best discard was written back below the default
C9_Witness ==
    /\ pc = "done"
    /\ discard_estimate = DefaultDiscard
    /\ best_model # <<>>
    /\ best_model[1].id = <<2, 4>>
    /\ RecordDiscards[Features[1]] = 30
    /\ RecordDiscards[Features[2]] = 60

\* C10: with the default discard estimate, at the end of every sweep and at
\* the return the classifier of the best-model record was trained on
\* exactly the columns of the live training table, which are those of the
\* live dev table.
C10_TrainedOnLiveColumns ==
    (discard_estimate = DefaultDiscard /\ pc \in {"sweep", "done"} /\ best_model # <<>>) =>
        /\ best_model[1].features = Columns(df_training_data)
        /\ best_model[1].features = Columns(dev_data)

\* returned after the drop-entirely trials of the first and third feature
\* won their sweeps
C10_Witness ==
    /\ pc = "done"
    /\ discard_estimate = DefaultDiscard
    /\ Columns(df_training_data) = {Features[2]}
    /\ best_model[1].id = <<3, 10>>

====
